---- MODULE Spec2Model ----
(***************************************************************************)
(* A model of the AI benchmark dashboard's ingestion pipeline              *)
(* (src/src/ingestors/base.py, src/scripts/update_data.py,                 *)
(* src/src/cli/refresh_data.py), its store (src/src/db) and its frontier   *)
(* query (src/src/db/queries.py).                                          *)
(***************************************************************************)
EXTENDS Integers, Sequences, FiniteSets, TLC

(***************************************************************************)
(* Bounds of the model.                                                    *)
(***************************************************************************)
\* the largest number of joined result rows of one benchmark in the store
MaxTable == 2
\* the largest number of rows of the raw data an ingestor run is given directly
MaxRows == 2
\* the number of entries of the ingestor registry that run_update runs
MaxBatch == 2
\* the number of Source records registered
MaxSources == 2
\* the last reading of the clock
MaxClock == 2
\* the number of benchmarks refresh_all goes through
MaxRefresh == 2

(***************************************************************************)
(* Values.                                                                 *)
(***************************************************************************)
\* Python's None and SQL's NULL: a nullable score or date that is absent.
\* It is smaller than every date and score of the model.
NULL == -1

\* dates, as day numbers
Dates == {1, 2}
\* scores a stored result may carry
TableScores == {10, 20, 30}

Nullable(S) == S \cup {NULL}

\* The larger / smaller of two numbers.

(***************************************************************************)
(* State.                                                                  *)
(***************************************************************************)
VARIABLES
    \* --- the frontier query (queries.py) ---
    table,             \* the rows of one benchmark, results JOIN models JOIN sources
    higher_is_better,  \* benchmarks.higher_is_better of that benchmark
    min_date,          \* the min_date argument of the last query (NULL: none)
    fsorted,           \* the rows of the last query after results.sort("effective_date")
    frontier,          \* the rows the last get_frontier_results returned
    fpc,               \* "idle" before the query, "done" after it
    \* --- one BaseIngestor.run (base.py) ---
    cur,               \* self: the ingestor that is running
    dry_run,           \* the dry_run argument
    upstream,          \* per ingestor class, the raw data its fetch_raw finds
    pc,                \* the position of the run
    self_sources,      \* self.sources: the source ids registered, in order
    self_models,       \* self.models: the model ids registered, in order
    warnings,          \* self.warnings
    errors,            \* self.errors
    results,           \* the list parse returned
    validated,         \* the list validate returned
    pidx,              \* the position of the running persistence loop
    summary,           \* what run returned (read only when pc = "returned")
    store,             \* the database: benchmarks, sources, models, results
    storeAtStart,      \* the store as the current run found it
    writeLog,          \* the store upserts the current run has made, in order
    exc,               \* where the current run last raised an exception ("none": nowhere)
    \* --- run_update (scripts/update_data.py) ---
    benchmark_arg,     \* the benchmark_id argument (NoArg: None)
    ingestors,         \* the list of ingestors to run
    ui,                \* the position of the loop over ingestors
    upc,               \* the position of run_update
    success_count,
    error_count,
    run_results,       \* the list "results" of the runs' summaries
    changelog,         \* the lines of the changelog file
    last_update,       \* metadata['last_update']
    update_summary,    \* what run_update returned (read only when upc = "done")
    runLog,            \* the positions of the ingestors whose run was started, in order
    \* --- refresh_benchmark (src/cli/refresh_data.py) ---
    rf_benchmark,      \* the benchmark_id argument
    prefer_official,   \* the prefer_official argument
    order,             \* the list "order" of source types
    oi,                \* the position of the loop over order
    rpc,               \* the position of refresh_benchmark
    rf_return,         \* what refresh_benchmark returned (read only when rpc = "done")
    tried,             \* the source types whose ingestor was run, with the outcome
    \* --- the store driven directly (src/db/queries.py) ---
    model_release,     \* models.release_date, per model_id
    batch,             \* the argument of the last insert_results call
    reingest,          \* whether that call repeated the call before it
    countBefore,       \* the number of stored results before that call
    qpc,               \* "idle" before any insert_results call, "inserted" after one
    \* --- the command line entry points (main) ---
    exit_code,         \* the exit code of the process (NoExit: it has not exited)
    ra_i,              \* refresh_all: the position of the loop over the benchmarks
    ra_results,        \* refresh_all: what refresh_benchmark returned, per benchmark, in order
    ra_pc,             \* refresh_all: "idle", "loop" or "done"
    \* --- the sources the adapters' parse registers ---
    clock,             \* what datetime.utcnow() returns now
    registered,        \* the Source records registered so far, in order
    \* --- one call of a projection (src/projections) ---
    df,                \* the df argument: the (effective_date, score) rows
    window_months,     \* the window_months argument
    forecast_months,   \* the forecast_months argument
    ceiling,           \* the ceiling argument
    projection,        \* how the call ended (read only when ppc = "done")
    ppc,               \* "idle" before the call, "done" after it
    \* --- calls of Result.generate_id (src/models/schemas.py) ---
    id_args,           \* the two rows whose ids are asked for
    id_calls           \* the calls made so far: the row, the string hashed, the id

fvars == <<table, higher_is_better, min_date, fsorted, frontier, fpc>>

runvars == <<cur, dry_run, upstream, pc, self_sources, self_models, warnings, errors,
             results, validated, pidx, summary, store, storeAtStart, writeLog, exc>>

updvars == <<benchmark_arg, ingestors, ui, upc, success_count, error_count, run_results,
             changelog, last_update, update_summary, runLog>>

refvars == <<rf_benchmark, prefer_official, order, oi, rpc, rf_return, tried>>

dbvars == <<model_release, batch, reingest, countBefore, qpc>>

\* the variables the pipeline's own steps never touch
clivars == <<exit_code, ra_i, ra_results, ra_pc>>

srcvars == <<clock, registered>>

projvars == <<df, window_months, forecast_months, ceiling, projection, ppc>>

idvars == <<id_args, id_calls>>

othervars == <<dbvars, clivars, srcvars, projvars, idvars>>

vars == <<table, higher_is_better, min_date, fsorted, frontier, fpc,
          cur, dry_run, upstream, pc, self_sources, self_models, warnings, errors,
          results, validated, pidx, summary, store, storeAtStart, writeLog, exc,
          benchmark_arg, ingestors, ui, upc, success_count, error_count, run_results,
          changelog, last_update, update_summary, runLog,
          rf_benchmark, prefer_official, order, oi, rpc, rf_return, tried,
          model_release, batch, reingest, countBefore, qpc,
          exit_code, ra_i, ra_results, ra_pc, clock, registered,
          df, window_months, forecast_months, ceiling, projection, ppc,
          id_args, id_calls>>

(***************************************************************************)
(* get_results_for_benchmark and get_frontier_results.                     *)
(***************************************************************************)
\* One joined row: r.score, r.evaluation_date and m.release_date.
JoinedRows ==
    [score : Nullable(TableScores),
     evaluation_date : Nullable(Dates),
     model_release_date : Nullable(Dates)]

\* A total order on rows, used only to list each multiset of rows once.
RowCode(r) ==
    ((r.score + 1) * 16) + ((r.evaluation_date + 1) * 4) + (r.model_release_date + 1)

\* The tables of at most MaxTable rows; row order in the table is immaterial
\* because every query sorts.
Tables ==
    UNION { { t \in [1..n -> JoinedRows] :
                \A i \in 1..n : \A j \in 1..n : i < j => RowCode(t[i]) <= RowCode(t[j]) }
            : n \in 0..MaxTable }

\* COALESCE(r.evaluation_date, m.release_date) and pl.coalesce(...)
EffectiveDate(r) ==
    IF r.evaluation_date # NULL THEN r.evaluation_date ELSE r.model_release_date

\* " AND (r.evaluation_date >= ? OR m.release_date >= ?)", added only when
\* min_date is given; a comparison with NULL is not true.
PassesMinDate(r, m) ==
    \/ m = NULL
    \/ (r.evaluation_date # NULL /\ r.evaluation_date >= m)
    \/ (r.model_release_date # NULL /\ r.model_release_date >= m)

\* results.sort("effective_date"): ascending, nulls first.
SortKeyLeq(a, b) ==
    \/ EffectiveDate(a) = NULL
    \/ (EffectiveDate(b) # NULL /\ EffectiveDate(a) <= EffectiveDate(b))

IsSortedByDate(s) ==
    \A i \in 1..Len(s) : \A j \in 1..Len(s) : i < j => SortKeyLeq(s[i], s[j])

\* The rows of t at the positions idx, in the order p gives.
Arrange(t, p) == [k \in 1..Len(p) |-> t[p[k]]]

\* Every outcome of get_results_for_benchmark followed by sort("effective_date"):
\* the rows the WHERE clause keeps, in an order ascending by effective date.
\* Neither ORDER BY nor sort (maintain_order=False) fixes the order of rows
\* that share an effective date, so every such order is an outcome.
SortedOutcomes(t, m) ==
    LET keep == { i \in 1..Len(t) : PassesMinDate(t[i], m) }
        n == Cardinality(keep)
        perms == { p \in [1..n -> keep] : \A a \in 1..n : \A b \in 1..n : a # b => p[a] # p[b] }
    IN  { s \in { Arrange(t, p) : p \in perms } : IsSortedByDate(s) }

\* The non-null scores among the first i rows of s.
ScoresUpTo(s, i) == { s[k].score : k \in { k \in 1..i : s[k].score # NULL } }

SetMax(S) == CHOOSE x \in S : \A y \in S : y <= x
SetMin(S) == CHOOSE x \in S : \A y \in S : x <= y

\* pl.col("score").cum_max() at row i: null where the score is null
CumMax(s, i) == IF s[i].score = NULL THEN NULL ELSE SetMax(ScoresUpTo(s, i))
\* pl.col("score").cum_min() at row i
CumMin(s, i) == IF s[i].score = NULL THEN NULL ELSE SetMin(ScoresUpTo(s, i))

\* the frontier_score column
FrontierScoreReversed(s, i, hib) == IF hib THEN CumMin(s, i) ELSE CumMax(s, i)
FrontierScore(s, i, hib) == IF hib THEN CumMax(s, i) ELSE CumMin(s, i)

\* pl.col("score") == pl.col("frontier_score"): a null comparison is not true
FirstToReachFrontierScore(s, i, hib) ==
    /\ s[i].score # NULL
    /\ s[i].score = FrontierScore(s, i, hib)
    /\ \A k \in 1..(i - 1) : s[k].score # s[i].score
EqualsFrontierScore(s, i, hib) ==
    /\ s[i].score # NULL
    /\ s[i].score = FrontierScore(s, i, hib)

\* results.filter(score == frontier_score)
RECURSIVE FilterFrontier(_, _, _)
FilterFrontier(s, i, hib) ==
    IF i = 0 THEN <<>>
    ELSE LET rest == FilterFrontier(s, i - 1, hib)
         IN  IF EqualsFrontierScore(s, i, hib)
             THEN Append(rest, s[i])
             ELSE rest

\* get_frontier_results(benchmark_id, min_date): one query.
GetFrontier(m) ==
    /\ fpc = "idle"
    /\ \E s \in SortedOutcomes(table, m) :
         /\ fsorted' = s
         /\ frontier' = FilterFrontier(s, Len(s), higher_is_better)
    /\ min_date' = m
    /\ fpc' = "done"
    /\ UNCHANGED <<table, higher_is_better>>
    /\ UNCHANGED <<runvars, updvars, refvars, othervars>>

(***************************************************************************)
(* The ingestors (src/src/ingestors).                                      *)
(***************************************************************************)
\* EpochIngestor.ADDITIONAL_BENCHMARKS
ADDITIONAL_BENCHMARKS == {"gpqa_diamond", "math_level_5", "aider_polyglot"}

\* An ingestor instance: its class, BENCHMARK_ID and BENCHMARK_META
\* (benchmark_id, scale_min, scale_max).
SWEBenchOfficialIngestor ==
    [cls |-> "SWEBenchOfficialIngestor", BENCHMARK_ID |-> "swe_bench_verified",
     meta_id |-> "swe_bench_verified", scale_min |-> 0, scale_max |-> 100]

SWEBenchIngestor ==
    [cls |-> "SWEBenchIngestor", BENCHMARK_ID |-> "swe_bench_verified",
     meta_id |-> "swe_bench_verified", scale_min |-> 0, scale_max |-> 100]

METRIngestor ==
    [cls |-> "METRIngestor", BENCHMARK_ID |-> "metr_time_horizons",
     meta_id |-> "metr_time_horizons", scale_min |-> 0, scale_max |-> 1000]

\* EpochIngestor(benchmark_id): BENCHMARK_ID is the argument; BENCHMARK_META is
\* replaced only for the ADDITIONAL_BENCHMARKS and is otherwise the class's
\* "epoch_generic" one.
EpochIngestor(benchmark_id) ==
    [cls |-> "EpochIngestor", BENCHMARK_ID |-> benchmark_id,
     meta_id |-> IF benchmark_id \in ADDITIONAL_BENCHMARKS
                 THEN benchmark_id ELSE "epoch_generic",
     scale_min |-> 0, scale_max |-> 100]

\* BENCHMARK_META = None, the base class's default
NoMeta == "none"

(***************************************************************************)
(* Result (src/src/models/schemas.py).                                     *)
(***************************************************************************)
\* validate_score_range's "reasonable range"
ScoreRangeLow == -1000
ScoreRangeHigh == 1000

TrustTiers == {"A", "B", "C"}
\* a trust_tier argument that was not given
Missing == "missing"

\* Result.generate_id(model_id, benchmark_id, evaluation_date): the text that
\* is hashed, kept as its three parts.
DateStr(d) == IF d # NULL THEN <<"date", d>> ELSE <<"unknown">>
GenerateResultId(model_id, benchmark_id, evaluation_date) ==
    <<model_id, benchmark_id, DateStr(evaluation_date)>>

\* Whether Result(**f) constructs: the fields' own validation (trust_tier is a
\* required TrustTier), validate_score_range and validate_provenance.
ConstructsUnchecked(f) ==
    /\ f.score = NULL \/ (f.score >= ScoreRangeLow /\ f.score <= ScoreRangeHigh)
ResultConstructs(f) ==
    /\ f.trust_tier \in TrustTiers
    /\ f.score = NULL \/ (f.score >= ScoreRangeLow /\ f.score <= ScoreRangeHigh)
    /\ f.source_id # ""

(***************************************************************************)
(* The store (src/src/db).                                                 *)
(***************************************************************************)
\* the tables after init_database
EmptyStore == [benchmarks |-> {}, sources |-> {}, models |-> {}, results |-> {}]

\* INSERT OR REPLACE INTO benchmarks / sources / models: the primary key only
InsertBenchmarkRow(st, id) == [st EXCEPT !.benchmarks = @ \cup {id}]
InsertSourceRow(st, id) == [st EXCEPT !.sources = @ \cup {id}]
InsertModelRow(st, id) == [st EXCEPT !.models = @ \cup {id}]

\* the REFERENCES constraints of the results table
ForeignKeysHold(st, r) ==
    /\ r.model_id \in st.models
    /\ r.benchmark_id \in st.benchmarks
    /\ r.source_id \in st.sources

\* INSERT OR REPLACE INTO results: result_id is the primary key
InsertResultRow(st, r) ==
    [st EXCEPT !.results = { x \in @ : x.result_id # r.result_id } \cup {r}]

(***************************************************************************)
(* BaseIngestor (src/src/ingestors/base.py).                               *)
(***************************************************************************)
\* The raw rows an adapter's parse reads: the model, the score, the date and
\* what the adapter passes as provenance ("ok": its registered source and a
\* tier; "no_source": an empty source_id; "no_tier": no trust_tier).
RawRows ==
    [model : {"m1", "m2"}, score : {NULL, 50, 150}, date : {NULL},
     prov : {"ok", "no_source", "no_tier"}]

\* the id of the Source an ingestor's parse registers
SourceIdOf(ing) == <<"source", ing.cls>>

\* The arguments parse gives Result(...) for one raw row.
ResultFields(ing, row) ==
    [result_id |-> GenerateResultId(row.model, ing.BENCHMARK_ID, row.date),
     model_id |-> row.model,
     benchmark_id |-> ing.BENCHMARK_ID,
     score |-> row.score,
     evaluation_date |-> row.date,
     source_id |-> IF row.prov = "no_source" THEN "" ELSE SourceIdOf(ing),
     trust_tier |-> IF row.prov = "no_tier" THEN Missing ELSE "B"]

\* register_model: the dict keeps the first position of a key
Register(seq, k) == IF \E i \in 1..Len(seq) : seq[i] = k THEN seq ELSE Append(seq, k)

\* The loop of parse over the rows: every row registers its model, then
\* builds its Result; a row whose Result does not construct is skipped with
\* a warning.  acc = [models, results, warnings].
RECURSIVE ParseRows(_, _, _, _)
ParseRows(ing, rows, i, acc) ==
    IF i > Len(rows) THEN acc
    ELSE LET f == ResultFields(ing, rows[i])
             m == Register(acc.models, rows[i].model)
         IN  IF ResultConstructs(f)
             THEN ParseRows(ing, rows, i + 1,
                    [acc EXCEPT !.models = m, !.results = Append(@, f)])
             ELSE ParseRows(ing, rows, i + 1,
                    [acc EXCEPT !.models = m,
                                !.warnings = Append(@, "Failed to parse row")])

\* a range test that takes a missing score for one off the scale
OutOfRangeOrNull(ing, r) ==
    \/ r.score = NULL
    \/ ing.meta_id # NoMeta /\ ~(ing.scale_min <= r.score /\ r.score <= ing.scale_max)

\* validate's test of one score against BENCHMARK_META's scale
OutOfRange(ing, r) ==
    /\ r.score # NULL
    /\ ing.meta_id # NoMeta
    /\ ~(ing.scale_min <= r.score /\ r.score <= ing.scale_max)

\* validate: acc = [validated, warnings, errors]
RECURSIVE ValidateFrom(_, _, _, _)
ValidateFrom(ing, rs, i, acc) ==
    IF i > Len(rs) THEN acc
    ELSE IF OutOfRange(ing, rs[i])
         THEN ValidateFrom(ing, rs, i + 1,
                [acc EXCEPT !.warnings = Append(@, "Score out of range")])
         ELSE IF rs[i].source_id = ""
              THEN ValidateFrom(ing, rs, i + 1,
                     [acc EXCEPT !.errors = Append(@, "Missing source_id")])
              ELSE ValidateFrom(ing, rs, i + 1,
                     [acc EXCEPT !.validated = Append(@, rs[i])])

\* a summary whose success flag also asks for no warning
SummaryStrict(ing, parsed, nvalidated, inserted, warns, errs) ==
    [benchmark_id |-> ing.BENCHMARK_ID,
     parsed |-> parsed, validated |-> nvalidated, inserted |-> inserted,
     warnings |-> warns, errors |-> errs,
     success |-> Len(errs) = 0 /\ Len(warns) = 0]

\* _summary(parsed, validated, inserted)
Summary(ing, parsed, nvalidated, inserted, warns, errs) ==
    [benchmark_id |-> ing.BENCHMARK_ID,
     parsed |-> parsed, validated |-> nvalidated, inserted |-> inserted,
     warnings |-> warns, errors |-> errs,
     success |-> Len(errs) = 0]

NoSummary == Summary([BENCHMARK_ID |-> ""], 0, 0, 0, <<>>, <<>>)

\* what stays as it is while a run is under way
RunFrame == UNCHANGED <<othervars, fvars, updvars, refvars, cur, dry_run, upstream, storeAtStart>>

\* run, step 1: fetch_raw, which raises when the raw data is not there
FetchRaw ==
    /\ pc = "fetch"
    /\ IF upstream[cur.cls].kind = "missing"
       THEN /\ exc' = "fetch_raw"
            /\ errors' = Append(errors, "Failed to fetch raw data")
            /\ summary' = Summary(cur, 0, 0, 0, warnings, errors')
            /\ pc' = "returned"
       ELSE /\ pc' = "parse"
            /\ UNCHANGED <<errors, summary, exc>>
    /\ UNCHANGED <<self_sources, self_models, warnings, results, validated, pidx,
                   store, writeLog>>
    /\ RunFrame

\* run, step 2: parse, which raises when the file cannot be read as a table
\* (pl.read_csv, before anything is registered)
Parse ==
    /\ pc = "parse"
    /\ IF upstream[cur.cls].kind = "malformed"
       THEN /\ exc' = "parse"
            /\ errors' = Append(errors, "Failed to parse data")
            /\ summary' = Summary(cur, 0, 0, 0, warnings, errors')
            /\ pc' = "returned"
            /\ UNCHANGED <<self_sources, self_models, warnings, results>>
       ELSE IF upstream[cur.cls].kind = "no_score_column"
       THEN \* EpochIngestor.parse: the source is registered, the error is
            \* logged and the empty list is returned
            /\ self_sources' = Register(self_sources, SourceIdOf(cur))
            /\ errors' = Append(errors, "Could not find score column")
            /\ results' = <<>>
            /\ pc' = "validate"
            /\ UNCHANGED <<self_models, warnings, summary, exc>>
       ELSE LET out == ParseRows(cur, upstream[cur.cls].rows, 1,
                         [models |-> self_models, results |-> <<>>,
                          warnings |-> warnings])
            IN  /\ self_sources' = Register(self_sources, SourceIdOf(cur))
                /\ self_models' = out.models
                /\ results' = out.results
                /\ warnings' = out.warnings
                /\ pc' = "validate"
                /\ UNCHANGED <<errors, summary, exc>>
    /\ UNCHANGED <<validated, pidx, store, writeLog>>
    /\ RunFrame

\* run, step 3: validate
Validate ==
    /\ pc = "validate"
    /\ LET out == ValidateFrom(cur, results, 1,
                    [validated |-> <<>>, warnings |-> warnings, errors |-> errors])
       IN  /\ validated' = out.validated
           /\ warnings' = out.warnings
           /\ errors' = out.errors
    /\ pc' = "write"
    /\ UNCHANGED <<self_sources, self_models, results, pidx, summary, store, writeLog, exc>>
    /\ RunFrame

\* An exception leaves validate (an overriding validate that raises, or the
\* interpreter's MemoryError): run has no handler around step 3.
ValidateRaises ==
    /\ pc = "validate"
    /\ exc' = "validate"
    /\ pc' = "raised"
    /\ UNCHANGED <<self_sources, self_models, warnings, errors, results, validated,
                   pidx, summary, store, writeLog>>
    /\ RunFrame

\* run, step 4 with dry_run: nothing is written
DryRunShortcut == FALSE
DryRunReturns == dry_run

DryRunReturn ==
    /\ pc = "write"
    /\ DryRunReturns
    /\ summary' = Summary(cur, Len(results), Len(validated), 0, warnings, errors)
    /\ pc' = "returned"
    /\ UNCHANGED <<self_sources, self_models, warnings, errors, results, validated,
                   pidx, store, writeLog, exc>>
    /\ RunFrame

\* insert_benchmark(self.BENCHMARK_META), when there is one
InsertBenchmark ==
    /\ pc = "write"
    /\ ~DryRunReturns
    /\ IF cur.meta_id # NoMeta
       THEN /\ store' = InsertBenchmarkRow(store, cur.meta_id)
            /\ writeLog' = Append(writeLog, "benchmark")
       ELSE UNCHANGED <<store, writeLog>>
    /\ pc' = "sources"
    /\ pidx' = 1
    /\ UNCHANGED <<self_sources, self_models, warnings, errors, results, validated,
                   summary, exc>>
    /\ RunFrame

\* for source in self.sources.values(): insert_source(source)
InsertSource ==
    /\ pc = "sources"
    /\ IF pidx <= Len(self_sources)
       THEN /\ store' = InsertSourceRow(store, self_sources[pidx])
            /\ writeLog' = Append(writeLog, "source")
            /\ pidx' = pidx + 1
            /\ pc' = pc
       ELSE /\ pc' = "models"
            /\ pidx' = 1
            /\ UNCHANGED <<store, writeLog>>
    /\ UNCHANGED <<self_sources, self_models, warnings, errors, results, validated,
                   summary, exc>>
    /\ RunFrame

\* for model in self.models.values(): insert_model(model)
InsertModel ==
    /\ pc = "models"
    /\ IF pidx <= Len(self_models)
       THEN /\ store' = InsertModelRow(store, self_models[pidx])
            /\ writeLog' = Append(writeLog, "model")
            /\ pidx' = pidx + 1
            /\ pc' = pc
       ELSE /\ pc' = "results"
            /\ pidx' = 1
            /\ UNCHANGED <<store, writeLog>>
    /\ UNCHANGED <<self_sources, self_models, warnings, errors, results, validated,
                   summary, exc>>
    /\ RunFrame

\* the except branch reporting the results written before the failure
PersistenceFailedCountsWritten ==
    /\ exc' = "persist"
    /\ errors' = Append(errors, "Failed to write to database")
    /\ summary' = Summary(cur, Len(results), Len(validated),
                          Cardinality({ i \in 1..Len(writeLog) : writeLog[i] = "result" }),
                          warnings, errors')
    /\ pc' = "returned"

\* the except branch of run's persistence block
PersistenceFailed ==
    /\ exc' = "persist"
    /\ errors' = Append(errors, "Failed to write to database")
    /\ summary' = Summary(cur, Len(results), Len(validated), 0, warnings, errors')
    /\ pc' = "returned"

\* insert_results(validated): one INSERT OR REPLACE per result, each its own
\* statement on a connection in autocommit; a result whose foreign keys do
\* not hold raises a constraint error.  After the last one, the count
\* returned is len(results).
InsertResults ==
    /\ pc = "results"
    /\ IF pidx <= Len(validated)
       THEN IF ForeignKeysHold(store, validated[pidx])
            THEN /\ store' = InsertResultRow(store, validated[pidx])
                 /\ writeLog' = Append(writeLog, "result")
                 /\ pidx' = pidx + 1
                 /\ pc' = pc
                 /\ UNCHANGED <<errors, summary, exc>>
            ELSE /\ PersistenceFailed
                 /\ UNCHANGED <<store, writeLog, pidx>>
       ELSE /\ summary' = Summary(cur, Len(results), Len(validated), Len(validated),
                                  warnings, errors)
            /\ pc' = "returned"
            /\ UNCHANGED <<store, writeLog, pidx, errors, exc>>
    /\ UNCHANGED <<self_sources, self_models, warnings, results, validated>>
    /\ RunFrame

\* Any of the insert calls raises (the database cannot be opened or written).
InsertRaises ==
    /\ \/ pc = "write" /\ ~DryRunReturns /\ cur.meta_id # NoMeta
       \/ pc = "sources" /\ pidx <= Len(self_sources)
       \/ pc = "models" /\ pidx <= Len(self_models)
       \/ pc = "results" /\ pidx <= Len(validated)
    /\ PersistenceFailed
    /\ UNCHANGED <<self_sources, self_models, warnings, results, validated, pidx,
                   store, writeLog>>
    /\ RunFrame

\* benchmark_id=None
NoArg == ""
NoUpdateSummary == [success |-> FALSE, total |-> 0, succeeded |-> 0, failed |-> 0]

\* the steps of one run
RunStep ==
    \/ FetchRaw
    \/ Parse
    \/ Validate
    \/ ValidateRaises
    \/ DryRunReturn
    \/ InsertBenchmark
    \/ InsertSource
    \/ InsertModel
    \/ InsertResults
    \/ InsertRaises

\* the raw data a directly started run may find
\* Raw data: a file that is not there, a file that cannot be read as a table,
\* or a table of rows.
NoFile == [kind |-> "missing", rows |-> <<>>]
BadFile == [kind |-> "malformed", rows |-> <<>>]
RowsFile(rows) == [kind |-> "rows", rows |-> rows]
\* a CSV that reads as a table and has none of the score columns EpochIngestor
\* looks for
NoScoreColumn == [kind |-> "no_score_column", rows |-> <<>>]

DirectUpstreams ==
    {NoFile, BadFile} \cup { RowsFile(rows) : rows \in UNION { [1..n -> RawRows] : n \in 0..MaxRows } }

\* the ingestors started directly
DirectIngestors ==
    {SWEBenchOfficialIngestor, METRIngestor,
     EpochIngestor("gpqa_diamond"), EpochIngestor("epoch_generic"),
     EpochIngestor("mmlu")}

IngestorClasses ==
    {"SWEBenchOfficialIngestor", "SWEBenchIngestor", "METRIngestor", "EpochIngestor"}

\* the store is not driven directly
IdleDb ==
    /\ model_release = <<>>
    /\ batch = <<>>
    /\ reingest = FALSE
    /\ countBefore = 0
    /\ qpc = "idle"

\* the process has not exited
NoExit == -1
IdleCli ==
    /\ exit_code = NoExit
    /\ ra_i = 1
    /\ ra_results = <<>>
    /\ ra_pc = "idle"

\* no parse has registered a source
IdleSources ==
    /\ clock = 0
    /\ registered = <<>>

\* no projection has been called
NoProjection ==
    [kind |-> "none", method |-> "none", fit_attempted |-> FALSE, fit_error |-> "none",
     forecast_values |-> <<>>, ci_80_high |-> <<>>, ci_95_high |-> <<>>]

IdleProj ==
    /\ df = <<>>
    /\ window_months = 1
    /\ forecast_months = 1
    /\ ceiling = 10
    /\ projection = NoProjection
    /\ ppc = "idle"

\* generate_id has not been called
IdleIds ==
    /\ id_args = <<>>
    /\ id_calls = <<>>

IdleOther ==
    /\ IdleDb
    /\ IdleCli
    /\ IdleSources
    /\ IdleProj
    /\ IdleIds

\* a run that has not started
IdleRun ==
    /\ cur = SWEBenchOfficialIngestor
    /\ dry_run = FALSE
    /\ upstream = [c \in IngestorClasses |-> [kind |-> "missing", rows |-> <<>>]]
    /\ pc = "idle"
    /\ self_sources = <<>>
    /\ self_models = <<>>
    /\ warnings = <<>>
    /\ errors = <<>>
    /\ results = <<>>
    /\ validated = <<>>
    /\ pidx = 1
    /\ summary = NoSummary
    /\ store = EmptyStore
    /\ storeAtStart = EmptyStore
    /\ writeLog = <<>>
    /\ exc = "none"

\* no frontier query
IdleFrontier ==
    /\ table = <<>>
    /\ higher_is_better = TRUE
    /\ min_date = NULL
    /\ fsorted = <<>>
    /\ frontier = <<>>
    /\ fpc = "idle"

(***************************************************************************)
(* run_update (src/scripts/update_data.py).                                *)
(***************************************************************************)
\* INGESTORS of src/src/ingestors/__init__.py, in the order of the dict: the
\* first entries.
INGESTORS ==
    << [key |-> "swe_bench_verified", ing |-> SWEBenchOfficialIngestor],
       [key |-> "swe_bench_epoch", ing |-> SWEBenchIngestor],
       [key |-> "metr_time_horizons", ing |-> METRIngestor] >>

\* the entries of the registry the model runs
Batch == SubSeq(INGESTORS, 1, MaxBatch)
BatchKeys == { Batch[i].key : i \in 1..Len(Batch) }

\* get_ingestor(benchmark_id) and get_all_ingestors()
GetIngestor(key) == (CHOOSE i \in 1..Len(Batch) : Batch[i].key = key)
GetAllIngestors == [i \in 1..Len(Batch) |-> i]
IngestorAt(i) == Batch[i].ing

\* run_update up to the loop: an unknown benchmark_id returns at once.
\* (init_database and backup_database leave the tables' rows as they are.)
UpdateBegin ==
    /\ upc = "start"
    /\ IF benchmark_arg # NoArg /\ benchmark_arg \notin BatchKeys
       THEN /\ update_summary' = [success |-> FALSE, error |-> "Unknown benchmark"]
            /\ upc' = "done"
            /\ UNCHANGED ingestors
       ELSE /\ ingestors' = IF benchmark_arg # NoArg
                            THEN <<GetIngestor(benchmark_arg)>>
                            ELSE GetAllIngestors
            /\ upc' = "loop"
            /\ UNCHANGED update_summary
    /\ UNCHANGED <<benchmark_arg, ui, success_count, error_count, run_results, changelog,
                   last_update, runLog>>
    /\ UNCHANGED <<othervars, fvars, runvars, refvars>>

\* a new ingestor's run starts: the call ingestor.run(dry_run=dry_run)
StartRun(ing) ==
    /\ pc = "idle"
    /\ cur' = ing
    /\ pc' = "fetch"
    /\ self_sources' = <<>>
    /\ self_models' = <<>>
    /\ warnings' = <<>>
    /\ errors' = <<>>
    /\ results' = <<>>
    /\ validated' = <<>>
    /\ pidx' = 1
    /\ storeAtStart' = store
    /\ writeLog' = <<>>
    /\ exc' = "none"
    /\ UNCHANGED <<dry_run, upstream, summary, store>>

\* for ingestor in ingestors: result = ingestor.run(dry_run=dry_run)
UpdateCallRun ==
    /\ upc = "loop"
    /\ ui <= Len(ingestors)
    /\ StartRun(IngestorAt(ingestors[ui]))
    /\ runLog' = Append(runLog, ingestors[ui])
    /\ UNCHANGED <<benchmark_arg, ingestors, ui, upc, success_count, error_count,
                   run_results, changelog, last_update, update_summary>>
    /\ UNCHANGED <<othervars, fvars, refvars>>

\* the ChangelogEntry of a batch of inserted results
ChangelogEntry(ing, count) ==
    [action |-> "update", table |-> "results", record_id |-> ing.BENCHMARK_ID,
     count |-> count, source |-> "update_data"]

\* a changelog condition that forgets the count of inserted results
LogsWheneverRan(res) == ~dry_run

\* whether the loop body logs the run to the changelog
LogsToChangelog(res) == ~dry_run /\ res.inserted > 0

\* the loop body after run returned
UpdateRunReturned ==
    /\ upc = "loop"
    /\ pc = "returned"
    /\ run_results' = Append(run_results, summary)
    /\ IF summary.success
       THEN /\ success_count' = success_count + 1
            /\ changelog' = IF LogsToChangelog(summary)
                            THEN Append(changelog, ChangelogEntry(cur, summary.inserted))
                            ELSE changelog
            /\ UNCHANGED error_count
       ELSE /\ error_count' = error_count + 1
            /\ UNCHANGED <<success_count, changelog>>
    /\ ui' = ui + 1
    /\ pc' = "idle"
    /\ UNCHANGED <<benchmark_arg, ingestors, upc, last_update, update_summary, runLog>>
    /\ UNCHANGED <<othervars, fvars, refvars, cur, dry_run, upstream, self_sources, self_models,
                   warnings, errors, results, validated, pidx, summary, store,
                   storeAtStart, writeLog, exc>>

\* the record the except branch appends to results
CrashRecord(ing) ==
    [benchmark_id |-> ing.BENCHMARK_ID, success |-> FALSE, errors |-> <<"crashed">>]

\* The loop body after a successful run returned, when append_changelog
\* raises (the changelog file cannot be opened or written): the summary is in
\* results and success_count is counted already; the except branch counts an
\* error and appends its own record.
UpdateChangelogRaised ==
    /\ upc = "loop"
    /\ pc = "returned"
    /\ summary.success
    /\ LogsToChangelog(summary)
    /\ run_results' = Append(Append(run_results, summary), CrashRecord(cur))
    /\ success_count' = success_count + 1
    /\ error_count' = error_count + 1
    /\ ui' = ui + 1
    /\ pc' = "idle"
    /\ UNCHANGED <<benchmark_arg, ingestors, upc, changelog, last_update, update_summary,
                   runLog>>
    /\ UNCHANGED <<othervars, fvars, refvars, cur, dry_run, upstream, self_sources, self_models,
                   warnings, errors, results, validated, pidx, summary, store,
                   storeAtStart, writeLog, exc>>

\* where the loop goes after a run that raised
AfterCrashStop(i) == Len(ingestors) + 1
AfterCrash(i) == i + 1

\* the loop body's except branch: run raised
UpdateRunRaised ==
    /\ upc = "loop"
    /\ pc = "raised"
    /\ error_count' = error_count + 1
    /\ run_results' = Append(run_results, CrashRecord(cur))
    /\ ui' = AfterCrash(ui)
    /\ pc' = "idle"
    /\ UNCHANGED <<benchmark_arg, ingestors, upc, success_count, changelog, last_update,
                   update_summary, runLog>>
    /\ UNCHANGED <<othervars, fvars, refvars, cur, dry_run, upstream, self_sources, self_models,
                   warnings, errors, results, validated, pidx, summary, store,
                   storeAtStart, writeLog, exc>>

\* after the loop: set_last_update and the summary
UpdateFinish ==
    /\ upc = "loop"
    /\ pc = "idle"
    /\ ui > Len(ingestors)
    /\ last_update' = IF ~dry_run /\ success_count > 0 THEN "now" ELSE last_update
    /\ update_summary' = [success |-> error_count = 0, total |-> Len(ingestors),
                          succeeded |-> success_count, failed |-> error_count]
    /\ upc' = "done"
    /\ UNCHANGED <<benchmark_arg, ingestors, ui, success_count, error_count, run_results,
                   changelog, runLog>>
    /\ UNCHANGED <<othervars, fvars, runvars, refvars>>

\* main of update_data.py after run_update returned
UpdateMain ==
    /\ upc = "done"
    /\ exit_code = NoExit
    /\ exit_code' = IF update_summary.success THEN 0 ELSE 1
    /\ UNCHANGED <<ra_i, ra_results, ra_pc>>
    /\ UNCHANGED <<idvars, projvars, dbvars, srcvars, fvars, runvars, updvars, refvars>>

NextUpdate ==
    \/ UpdateBegin
    \/ UpdateCallRun
    \/ UpdateRunReturned
    \/ UpdateChangelogRaised
    \/ UpdateRunRaised
    \/ UpdateFinish
    \/ UpdateMain
    \/ RunStep

(***************************************************************************)
(* refresh_benchmark (src/src/cli/refresh_data.py).                        *)
(***************************************************************************)
\* INGESTORS of refresh_data.py: per benchmark, the ingestor of each source type
RefreshBenchmarks == {"swe_bench_verified", "gpqa_diamond", "math_level_5", "aider_polyglot"}

RefreshSources(b) ==
    IF b = "swe_bench_verified"
    THEN [official |-> SWEBenchOfficialIngestor, epoch |-> SWEBenchIngestor]
    ELSE [epoch |-> EpochIngestor(b)]

\* order, by preference
SourceOrder(sources, prefer) ==
    IF prefer /\ "official" \in DOMAIN sources
    THEN <<"official", "epoch">>
    ELSE <<"epoch", "official">>

\* refresh_benchmark up to the loop
RefreshBegin ==
    /\ rpc = "start"
    /\ IF rf_benchmark \notin RefreshBenchmarks
       THEN /\ rf_return' = [success |-> FALSE, error |-> "Unknown benchmark"]
            /\ rpc' = "done"
            /\ UNCHANGED order
       ELSE /\ order' = SourceOrder(RefreshSources(rf_benchmark), prefer_official)
            /\ rpc' = "loop"
            /\ UNCHANGED rf_return
    /\ UNCHANGED <<rf_benchmark, prefer_official, oi, tried>>
    /\ UNCHANGED <<othervars, fvars, runvars, updvars>>

\* if source_type not in sources: continue
RefreshSkip ==
    /\ rpc = "loop"
    /\ pc = "idle"
    /\ oi <= Len(order)
    /\ order[oi] \notin DOMAIN RefreshSources(rf_benchmark)
    /\ oi' = oi + 1
    /\ UNCHANGED <<rf_benchmark, prefer_official, order, rpc, rf_return, tried>>
    /\ UNCHANGED <<othervars, fvars, runvars, updvars>>

\* ingestor = ingestor_class(); result = ingestor.run(dry_run=dry_run)
RefreshCallRun ==
    /\ rpc = "loop"
    /\ oi <= Len(order)
    /\ order[oi] \in DOMAIN RefreshSources(rf_benchmark)
    /\ StartRun(RefreshSources(rf_benchmark)[order[oi]])
    /\ UNCHANGED <<rf_benchmark, prefer_official, order, oi, rpc, rf_return, tried>>
    /\ UNCHANGED <<othervars, fvars, updvars>>

\* whether the loop goes on after a run that returned result
TriesNextAlways(res) == TRUE
TriesNext(res) == ~res.success

\* the loop body after run returned: the first success is returned
RefreshRunReturned ==
    /\ rpc = "loop"
    /\ pc = "returned"
    /\ tried' = Append(tried, [source_type |-> order[oi],
                               outcome |-> IF summary.success THEN "success" ELSE "failed"])
    /\ IF TriesNext(summary)
       THEN /\ oi' = oi + 1
            /\ UNCHANGED <<rf_return, rpc>>
       ELSE /\ rf_return' = summary
            /\ rpc' = "done"
            /\ UNCHANGED oi
    /\ pc' = "idle"
    /\ UNCHANGED <<rf_benchmark, prefer_official, order>>
    /\ UNCHANGED <<othervars, fvars, updvars, cur, dry_run, upstream, self_sources, self_models,
                   warnings, errors, results, validated, pidx, summary, store,
                   storeAtStart, writeLog, exc>>

\* the loop body's except branch: run raised; continue
RefreshRunRaised ==
    /\ rpc = "loop"
    /\ pc = "raised"
    /\ tried' = Append(tried, [source_type |-> order[oi], outcome |-> "raised"])
    /\ oi' = oi + 1
    /\ pc' = "idle"
    /\ UNCHANGED <<rf_benchmark, prefer_official, order, rpc, rf_return>>
    /\ UNCHANGED <<othervars, fvars, updvars, cur, dry_run, upstream, self_sources, self_models,
                   warnings, errors, results, validated, pidx, summary, store,
                   storeAtStart, writeLog, exc>>

\* after the loop: no source succeeded
RefreshAllFailed ==
    /\ rpc = "loop"
    /\ pc = "idle"
    /\ oi > Len(order)
    /\ rf_return' = [success |-> FALSE, error |-> "All sources failed"]
    /\ rpc' = "done"
    /\ UNCHANGED <<rf_benchmark, prefer_official, order, oi, tried>>
    /\ UNCHANGED <<othervars, fvars, runvars, updvars>>

NextRefresh ==
    \/ RefreshBegin
    \/ RefreshSkip
    \/ RefreshCallRun
    \/ RefreshRunReturned
    \/ RefreshRunRaised
    \/ RefreshAllFailed
    \/ RunStep

(***************************************************************************)
(* refresh_all and main (src/src/cli/refresh_data.py).                     *)
(***************************************************************************)
\* INGESTORS.keys() of refresh_data.py, in the order of the dict
RefreshOrder == <<"swe_bench_verified", "gpqa_diamond", "math_level_5", "aider_polyglot">>

\* the benchmarks the model's refresh_all goes through
RefreshBatch == SubSeq(RefreshOrder, 1, MaxRefresh)

\* for benchmark_id in INGESTORS.keys(): refresh_benchmark(benchmark_id, dry_run=dry_run)
RefreshAllCall ==
    /\ ra_pc = "loop"
    /\ rpc = "idle"
    /\ ra_i <= Len(RefreshBatch)
    /\ rf_benchmark' = RefreshBatch[ra_i]
    /\ prefer_official' = TRUE
    /\ order' = <<>>
    /\ oi' = 1
    /\ rpc' = "start"
    /\ tried' = <<>>
    /\ UNCHANGED rf_return
    /\ UNCHANGED <<idvars, projvars, dbvars, clivars, srcvars, fvars, runvars, updvars>>

\* results[benchmark_id] = what refresh_benchmark returned
RefreshAllCollect ==
    /\ ra_pc = "loop"
    /\ rpc = "done"
    /\ ra_results' = Append(ra_results, rf_return)
    /\ ra_i' = ra_i + 1
    /\ rpc' = "idle"
    /\ UNCHANGED <<exit_code, ra_pc>>
    /\ UNCHANGED <<rf_benchmark, prefer_official, order, oi, rf_return, tried>>
    /\ UNCHANGED <<idvars, projvars, dbvars, srcvars, fvars, runvars, updvars>>

\* sum(1 for r in results.values() if r.get("success"))
Successful(rs) == Cardinality({ i \in 1..Len(rs) : rs[i].success })

\* the exit code of main in the run-all mode
ExitCodeAll(rs) == IF Successful(rs) > 0 THEN 0 ELSE 1

\* refresh_all returns and main exits
RefreshAllMain ==
    /\ ra_pc = "loop"
    /\ rpc = "idle"
    /\ ra_i > Len(RefreshBatch)
    /\ exit_code' = ExitCodeAll(ra_results)
    /\ ra_pc' = "done"
    /\ UNCHANGED <<ra_i, ra_results>>
    /\ UNCHANGED <<idvars, projvars, dbvars, srcvars, fvars, runvars, updvars, refvars>>

NextRefreshAll ==
    \/ RefreshAllCall
    \/ RefreshAllCollect
    \/ RefreshAllMain
    \/ RefreshBegin
    \/ RefreshSkip
    \/ RefreshCallRun
    \/ RefreshRunReturned
    \/ RefreshRunRaised
    \/ RefreshAllFailed
    \/ RunStep

(***************************************************************************)
(* Initial states.                                                         *)
(***************************************************************************)
\* The raw data the ingestors of a batch or a refresh may find: no file, an
\* unreadable file, an empty table, a table with one good row, and a table
\* with a good row, a row whose score is off the benchmark's scale and a
\* second row for the first one's model.
BatchUpstreams ==
    { NoFile, BadFile, RowsFile(<<>>),
      RowsFile(<< [model |-> "m1", score |-> 50, date |-> NULL, prov |-> "ok"] >>),
      RowsFile(<< [model |-> "m1", score |-> 50, date |-> NULL, prov |-> "ok"],
                  [model |-> "m2", score |-> 150, date |-> NULL, prov |-> "ok"],
                  [model |-> "m1", score |-> NULL, date |-> NULL, prov |-> "ok"] >>) }

\* the state no run has touched
FreshRun ==
    /\ cur = SWEBenchOfficialIngestor
    /\ pc = "idle"
    /\ self_sources = <<>>
    /\ self_models = <<>>
    /\ warnings = <<>>
    /\ errors = <<>>
    /\ results = <<>>
    /\ validated = <<>>
    /\ pidx = 1
    /\ summary = NoSummary
    /\ store = EmptyStore
    /\ storeAtStart = EmptyStore
    /\ writeLog = <<>>
    /\ exc = "none"

\* run_update is not running
IdleUpdate ==
    /\ benchmark_arg = NoArg
    /\ ingestors = <<>>
    /\ ui = 1
    /\ upc = "idle"
    /\ success_count = 0
    /\ error_count = 0
    /\ run_results = <<>>
    /\ changelog = <<>>
    /\ last_update = "never"
    /\ update_summary = NoUpdateSummary
    /\ runLog = <<>>

\* refresh_benchmark is not running
IdleRefresh ==
    /\ rf_benchmark = ""
    /\ prefer_official = TRUE
    /\ order = <<>>
    /\ oi = 1
    /\ rpc = "idle"
    /\ rf_return = NoSummary
    /\ tried = <<>>

\* ingestor.run(dry_run) on a new ingestor and an initialised, empty database
InitIngest ==
    /\ IdleOther
    /\ IdleFrontier
    /\ cur \in DirectIngestors
    /\ dry_run \in BOOLEAN
    /\ \E u \in DirectUpstreams \cup
                  (IF cur.cls = "EpochIngestor" THEN {NoScoreColumn} ELSE {}) :
         upstream = [c \in IngestorClasses |-> IF c = cur.cls THEN u ELSE NoFile]
    /\ pc = "fetch"
    /\ self_sources = <<>>
    /\ self_models = <<>>
    /\ warnings = <<>>
    /\ errors = <<>>
    /\ results = <<>>
    /\ validated = <<>>
    /\ pidx = 1
    /\ summary = NoSummary
    /\ store = EmptyStore
    /\ storeAtStart = EmptyStore
    /\ writeLog = <<>>
    /\ exc = "none"
    /\ IdleUpdate
    /\ IdleRefresh

SpecIngest == InitIngest /\ [][RunStep]_vars

\* run_update(benchmark_id, dry_run) on an initialised, empty database
InitUpdate ==
    /\ IdleOther
    /\ IdleFrontier
    /\ IdleRefresh
    /\ FreshRun
    /\ dry_run \in BOOLEAN
    /\ upstream \in { u \in [IngestorClasses -> BatchUpstreams] :
                        \A c \in IngestorClasses :
                           (\A i \in 1..Len(Batch) : Batch[i].ing.cls # c) => u[c] = NoFile }
    /\ benchmark_arg \in {NoArg, "swe_bench_epoch", "no_such_benchmark"}
    /\ ingestors = <<>>
    /\ ui = 1
    /\ upc = "start"
    /\ success_count = 0
    /\ error_count = 0
    /\ run_results = <<>>
    /\ changelog = <<>>
    /\ last_update = "never"
    /\ update_summary = NoUpdateSummary
    /\ runLog = <<>>

SpecUpdate == InitUpdate /\ [][NextUpdate]_vars

\* refresh_benchmark(benchmark_id, dry_run, prefer_official) on an
\* initialised, empty database
InitRefresh ==
    /\ IdleOther
    /\ IdleFrontier
    /\ IdleUpdate
    /\ FreshRun
    /\ dry_run \in BOOLEAN
    /\ rf_benchmark \in {"swe_bench_verified", "gpqa_diamond", "no_such_benchmark"}
    /\ prefer_official \in BOOLEAN
    /\ upstream \in { u \in [IngestorClasses -> BatchUpstreams] :
                        u["METRIngestor"] = NoFile }
    /\ order = <<>>
    /\ oi = 1
    /\ rpc = "start"
    /\ rf_return = NoSummary
    /\ tried = <<>>

SpecRefresh == InitRefresh /\ [][NextRefresh]_vars

\* main of refresh_data.py without --benchmark, on an initialised, empty
\* database
InitRefreshAll ==
    /\ IdleFrontier
    /\ IdleUpdate
    /\ IdleRefresh
    /\ IdleProj
    /\ IdleIds
    /\ IdleDb
    /\ IdleSources
    /\ FreshRun
    /\ dry_run \in BOOLEAN
    /\ upstream \in { u \in [IngestorClasses -> BatchUpstreams] :
                        u["METRIngestor"] = NoFile }
    /\ exit_code = NoExit
    /\ ra_i = 1
    /\ ra_results = <<>>
    /\ ra_pc = "loop"

SpecRefreshAll == InitRefreshAll /\ [][NextRefreshAll]_vars

\* validate and the rest of run, on any list of Result objects: a Result is
\* a mutable object, and an assignment to a field of it is not validated, so
\* the list parse hands over may hold results whose source_id is empty.
ParsedResults ==
    [model_id : {"m1"}, score : {NULL, 50, 150}, source_id : {"", "src"}]

ResultObject(ing, p) ==
    [result_id |-> GenerateResultId(p.model_id, ing.BENCHMARK_ID, NULL),
     model_id |-> p.model_id,
     benchmark_id |-> ing.BENCHMARK_ID,
     score |-> p.score,
     evaluation_date |-> NULL,
     source_id |-> IF p.source_id = "" THEN "" ELSE SourceIdOf(ing),
     trust_tier |-> "B"]

InitValidate ==
    /\ IdleOther
    /\ IdleFrontier
    /\ IdleUpdate
    /\ IdleRefresh
    /\ cur \in {SWEBenchOfficialIngestor, METRIngestor}
    /\ dry_run \in BOOLEAN
    /\ upstream = [c \in IngestorClasses |-> RowsFile(<<>>)]
    /\ pc = "validate"
    /\ self_sources = <<SourceIdOf(cur)>>
    /\ self_models = <<"m1">>
    /\ warnings = <<>>
    /\ errors = <<>>
    /\ results \in UNION { [1..n -> { ResultObject(cur, p) : p \in ParsedResults }] :
                             n \in 1..MaxRows }
    /\ validated = <<>>
    /\ pidx = 1
    /\ summary = NoSummary
    /\ store = EmptyStore
    /\ storeAtStart = EmptyStore
    /\ writeLog = <<>>
    /\ exc = "none"

NextValidate ==
    \/ Validate
    \/ DryRunReturn
    \/ InsertBenchmark
    \/ InsertSource
    \/ InsertModel
    \/ InsertResults

SpecValidate == InitValidate /\ [][NextValidate]_vars

InitFrontier ==
    /\ IdleOther
    /\ table \in Tables
    /\ higher_is_better \in BOOLEAN
    /\ min_date = NULL
    /\ fsorted = <<>>
    /\ frontier = <<>>
    /\ fpc = "idle"
    /\ IdleRun
    /\ IdleUpdate
    /\ IdleRefresh

NextFrontier == \E m \in Nullable(Dates) : GetFrontier(m)

SpecFrontier == InitFrontier /\ [][NextFrontier]_vars

(***************************************************************************)
(* insert_model and insert_results called on a store that holds a          *)
(* benchmark and a source (src/src/db/queries.py).                         *)
(***************************************************************************)
UpsertModels == {"m1"}
UpsertDates == {1}
UpsertScores == {10, 20}

\* The date an adapter gives generate_result_id for a row with evaluation
\* date e of a model whose release date, in that row, is r: eval_date
\* (arc_agi.py) or eval_date or release_date (epoch.py, swe_bench.py).
IdDateEval(e, r) == e
IdDateEvalOrRelease(e, r) == IF e # NULL THEN e ELSE r

\* the dates an adapter may give generate_result_id for evaluation date e
IdDates(e) ==
    { IdDateEval(e, r) : r \in Nullable(UpsertDates) }
       \cup { IdDateEvalOrRelease(e, r) : r \in Nullable(UpsertDates) }

\* the Result objects the adapters build for the benchmark "b"
UpsertResults ==
    UNION { { [result_id |-> GenerateResultId(m, "b", idd),
               model_id |-> m,
               benchmark_id |-> "b",
               score |-> sc,
               evaluation_date |-> e,
               source_id |-> "s",
               trust_tier |-> "B"] :
              m \in UpsertModels, sc \in UpsertScores, idd \in IdDates(e) } :
            e \in Nullable(UpsertDates) }

\* insert_model(model): INSERT OR REPLACE INTO models, release_date included
InsertModelCall(m, d) ==
    /\ store' = InsertModelRow(store, m)
    /\ model_release' = [x \in DOMAIN model_release \cup {m} |->
                            IF x = m THEN d ELSE model_release[x]]
    /\ UNCHANGED <<batch, reingest, countBefore, qpc>>
    /\ UNCHANGED <<idvars, projvars, fvars, updvars, refvars, clivars, srcvars>>
    /\ UNCHANGED <<cur, dry_run, upstream, pc, self_sources, self_models, warnings, errors,
                   results, validated, pidx, summary, storeAtStart, writeLog, exc>>

\* the store after the INSERT OR REPLACE of every result of a list, in order
RECURSIVE InsertAll(_, _, _)
InsertAll(st, rs, i) ==
    IF i > Len(rs) THEN st ELSE InsertAll(InsertResultRow(st, rs[i]), rs, i + 1)

\* insert_results(rs), every referenced row being in the store
InsertResultsCall(rs) ==
    /\ \A i \in 1..Len(rs) : ForeignKeysHold(store, rs[i])
    /\ store' = InsertAll(store, rs, 1)
    /\ batch' = rs
    /\ reingest' = (qpc = "inserted" /\ rs = batch)
    /\ countBefore' = Cardinality(store.results)
    /\ qpc' = "inserted"
    /\ UNCHANGED model_release
    /\ UNCHANGED <<idvars, projvars, fvars, updvars, refvars, clivars, srcvars>>
    /\ UNCHANGED <<cur, dry_run, upstream, pc, self_sources, self_models, warnings, errors,
                   results, validated, pidx, summary, storeAtStart, writeLog, exc>>

InitUpsert ==
    /\ IdleFrontier
    /\ IdleUpdate
    /\ IdleRefresh
    /\ cur = SWEBenchOfficialIngestor
    /\ dry_run = FALSE
    /\ upstream = [c \in IngestorClasses |-> NoFile]
    /\ pc = "idle"
    /\ self_sources = <<>>
    /\ self_models = <<>>
    /\ warnings = <<>>
    /\ errors = <<>>
    /\ results = <<>>
    /\ validated = <<>>
    /\ pidx = 1
    /\ summary = NoSummary
    /\ store = InsertSourceRow(InsertBenchmarkRow(EmptyStore, "b"), "s")
    /\ storeAtStart = EmptyStore
    /\ writeLog = <<>>
    /\ exc = "none"
    /\ model_release = <<>>
    /\ batch = <<>>
    /\ reingest = FALSE
    /\ countBefore = 0
    /\ qpc = "idle"
    /\ IdleProj
    /\ IdleIds
    /\ IdleCli
    /\ IdleSources

NextUpsert ==
    \/ \E m \in UpsertModels, d \in Nullable(UpsertDates) : InsertModelCall(m, d)
    \/ \E n \in 1..MaxRows : \E rs \in [1..n -> UpsertResults] : InsertResultsCall(rs)

SpecUpsert == InitUpsert /\ [][NextUpsert]_vars

(***************************************************************************)
(* The Source an adapter's parse builds and registers.                     *)
(***************************************************************************)
\* Source.generate_id(url, retrieved_at): the text that is hashed, kept as
\* its two parts.
SourceGenerateId(url, retrieved_at) == <<url, retrieved_at>>

\* the url an adapter gives generate_source_id, and the source_url of its Source
IdUrl(ing) ==
    CASE ing.cls = "SWEBenchOfficialIngestor" -> "https://www.swebench.com/"
      [] ing.cls = "SWEBenchIngestor" -> "https://epoch.ai/data/swe_bench_verified"
      [] ing.cls = "METRIngestor" -> "https://metr.org/time-horizons"
      [] ing.cls = "EpochIngestor" -> "https://epoch.ai/" \o ing.BENCHMARK_ID

SourceUrl(ing) ==
    CASE ing.cls = "SWEBenchOfficialIngestor" -> "https://www.swebench.com/"
      [] ing.cls = "SWEBenchIngestor" -> "https://epoch.ai/data/swe_bench_verified"
      [] ing.cls = "METRIngestor" -> "https://metr.org/blog/2025-03-19-measuring-ai-ability-to-complete-long-tasks/"
      [] ing.cls = "EpochIngestor" ->
           (IF ing.meta_id = "gpqa_diamond" THEN "https://arxiv.org/abs/2311.12022"
            ELSE "https://epoch.ai/")

\* the adapters whose parse is modelled
SourceIngestors ==
    {SWEBenchOfficialIngestor, SWEBenchIngestor, METRIngestor,
     EpochIngestor("gpqa_diamond"), EpochIngestor("epoch_generic")}

\* parse builds its Source: generate_source_id reads the clock for the id,
\* then retrieved_at=datetime.utcnow() reads it again, elapsed ticks later;
\* register_source keeps the record.
RegisterSource(ing, elapsed) ==
    /\ Len(registered) < MaxSources
    /\ clock + elapsed <= MaxClock
    /\ registered' = Append(registered,
                        [source_id |-> SourceGenerateId(IdUrl(ing), clock),
                         source_url |-> SourceUrl(ing),
                         retrieved_at |-> clock + elapsed])
    /\ clock' = clock + elapsed
    /\ UNCHANGED <<idvars, projvars, dbvars, clivars, fvars, runvars, updvars, refvars>>

\* time passes between two runs
Tick ==
    /\ clock < MaxClock
    /\ clock' = clock + 1
    /\ UNCHANGED registered
    /\ UNCHANGED <<idvars, projvars, dbvars, clivars, fvars, runvars, updvars, refvars>>

InitSources ==
    /\ IdleFrontier
    /\ IdleRun
    /\ IdleUpdate
    /\ IdleRefresh
    /\ IdleProj
    /\ IdleIds
    /\ IdleDb
    /\ IdleCli
    /\ clock = 0
    /\ registered = <<>>

NextSources ==
    \/ \E ing \in SourceIngestors, elapsed \in 0..1 : RegisterSource(ing, elapsed)
    \/ Tick

SpecSources == InitSources /\ [][NextSources]_vars

(***************************************************************************)
(* The projections: linear_projection, saturation_projection and           *)
(* power_law_projection.  Dates are day numbers; the confidence bounds are *)
(* kept in thousandths of a score point, which is exact for the            *)
(* interpolation np.percentile does.                                       *)
(***************************************************************************)
MaxPoints == 5
\* the number of bootstrap resamples (500 in saturation.py) the model draws
NBootstrap == 2

ProjDates == {0, 20, 45}
ProjScores == {10}
ProjCeilings == {8, 9, 10}
WindowMonths == {1}
ForecastMonths == {1, 2}

ProjPoints == [date : Nullable(ProjDates), score : Nullable(ProjScores)]

\* a series as get_frontier_results leaves it: sorted by effective_date, the
\* rows without a date first
SeriesSorted(s) == \A i \in 1..Len(s) : \A j \in i..Len(s) : s[i].date <= s[j].date

Series == UNION { { s \in [1..n -> ProjPoints] : SeriesSorted(s) } : n \in 0..MaxPoints }

LinearMinPoints == 3
SaturationMinPoints == 5
PowerLawMinPoints == 4

HasScore(p) == p.score # NULL

\* df.filter(pl.col(score_col).is_not_null())
ScoredRows(d) == SelectSeq(d, HasScore)

\* df[date_col].max(): the nulls are skipped, and None when there is no date
MaxDate(d) ==
    LET ds == { d[i].date : i \in 1..Len(d) } \ {NULL}
    IN  IF ds = {} THEN NULL ELSE SetMax(ds)

\* max_date - timedelta(days=window_months * 30)
MinWindowDate(max_date, wm) == max_date - wm * 30

\* df.filter(pl.col(date_col) >= min_window_date): a null date is not kept
WindowRows(d, wm) ==
    LET min_window_date == MinWindowDate(MaxDate(d), wm)
        InWindow(p) == p.date # NULL /\ p.date >= min_window_date
    IN  SelectSeq(d, InWindow)

\* The statements before the fit.  "None": the function returns None;
\* "TypeError": max_date is None and the subtraction raises; "fit": the fit
\* is reached.
Gate(d, min_points, wm) ==
    IF Len(d) < min_points THEN "None"
    ELSE IF Len(ScoredRows(d)) < min_points THEN "None"
    ELSE IF MaxDate(ScoredRows(d)) = NULL THEN "TypeError"
    ELSE IF Len(WindowRows(ScoredRows(d), wm)) < min_points THEN "None"
    ELSE "fit"

\* linear.py tests is_empty() after the filter where the others test the length
GateLinear(d, wm) ==
    IF Len(d) < LinearMinPoints THEN "None"
    ELSE IF Len(ScoredRows(d)) = 0 THEN "None"
    ELSE IF MaxDate(ScoredRows(d)) = NULL THEN "TypeError"
    ELSE IF Len(WindowRows(ScoredRows(d), wm)) < LinearMinPoints THEN "None"
    ELSE "fit"

\* a call that ended without a ProjectionResult
Ended(kind, method, attempted) ==
    [kind |-> kind, method |-> method, fit_attempted |-> attempted, fit_error |-> "none",
     forecast_values |-> <<>>, ci_80_high |-> <<>>, ci_95_high |-> <<>>]

\* except (RuntimeError, ValueError): the exceptions of the main fit that become
\* a return of None
FitExceptRuntimeOnly == {"RuntimeError"}
FitExcept == {"RuntimeError", "ValueError"}

\* the main fit raised err: None when the except clause catches it, and
\* otherwise the exception leaves the function
FitRaised(err, method) ==
    [kind |-> IF err \in FitExcept THEN "None" ELSE err,
     method |-> method, fit_attempted |-> TRUE, fit_error |-> err,
     forecast_values |-> <<>>, ci_80_high |-> <<>>, ci_95_high |-> <<>>]

\* x = days since the window's start: stats.linregress raises ValueError when
\* all x are identical (older scipy releases return nan instead)
AllSameDate(d) == \A i \in 1..Len(d) : d[i].date = d[1].date

LinearProjection ==
    /\ ppc = "idle"
    /\ ppc' = "done"
    /\ LET g == GateLinear(df, window_months)
       IN  IF g # "fit"
           THEN projection' = Ended(g, "linear", FALSE)
           ELSE \/ /\ AllSameDate(WindowRows(ScoredRows(df), window_months))
                   /\ projection' = Ended("ValueError", "linear", TRUE)
                \/ projection' = Ended("ProjectionResult", "linear", TRUE)
    /\ UNCHANGED <<df, window_months, forecast_months, ceiling>>
    /\ UNCHANGED <<idvars, dbvars, clivars, srcvars, fvars, runvars, updvars, refvars>>

\* np.minimum(v, ceiling)
CapNever(v, c) == v
CapAtCeiling(v, c) == IF v <= c THEN v ELSE c

YMax(d) == SetMax({ d[i].score : i \in 1..Len(d) })
YMin(d) == SetMin({ d[i].score : i \in 1..Len(d) })

\* bounds of curve_fit: max(y_max, ceiling * 0.5) <= L <= ceiling * 1.2;
\* curve_fit raises ValueError unless each lower bound is below its upper one
BoundsFeasible(d, c) ==
    /\ 10 * YMax(d) < 12 * c
    /\ 5 * c < 12 * c

\* p0 = [ceiling, k_init, x_mid]: curve_fit raises ValueError ("x0 is
\* infeasible") unless the guess lies within the bounds
GuessFeasible(d, c) ==
    /\ YMax(d) <= c
    /\ 5 * c <= 10 * c
    /\ 10 * c <= 12 * c

\* how curve_fit can end: "ok", or the exception it raises.  With feasible
\* bounds and guess the solver converges or gives up with RuntimeError.
SaturationFitOutcomes(d, c) ==
    IF BoundsFeasible(d, c) /\ GuessFeasible(d, c)
    THEN {"ok", "RuntimeError"}
    ELSE {"ValueError"}

\* power_law.py: bounds ([0, 0.01, -1000], [y_range * 10, 2, max(y) * 2]) and
\* p0 = [a_init, 0.5, min(y)], where y_range > 0 and 0 < a_init <= y_range
PowerLawFitOutcomes(d) ==
    IF -1000 < 2 * YMax(d) /\ -1000 <= YMin(d) /\ YMin(d) <= 2 * YMax(d)
    THEN {"ok", "RuntimeError"}
    ELSE {"ValueError"}

\* logistic_growth with a fitted L of up to 1.2 * ceiling: a value below the
\* ceiling and one above it
LogisticValues(c) == {c - 1, c + 1}

\* the k-th smallest value of a column
KthSmallest(col, k) ==
    CHOOSE v \in { col[i] : i \in 1..Len(col) } :
        /\ Cardinality({ i \in 1..Len(col) : col[i] < v }) < k
        /\ k <= Cardinality({ i \in 1..Len(col) : col[i] <= v })

\* np.percentile(col, q), q in thousandths, linear interpolation between the
\* two nearest ranks; the value is in thousandths too
Percentile(col, q) ==
    LET pos  == q * (Len(col) - 1)
        lo   == pos \div 1000
        frac == pos % 1000
        a    == KthSmallest(col, lo + 1)
        b    == IF frac = 0 THEN a ELSE KthSmallest(col, lo + 2)
    IN  1000 * a + frac * (b - a)

\* (1 + confidence_levels[i]) / 2 * 100 for (0.80, 0.95), in thousandths
UpperPercentiles == [ci_80_high |-> 900, ci_95_high |-> 975]

Column(rows, m) == [i \in 1..Len(rows) |-> rows[i][m]]

CapRow(row, c) == [m \in 1..Len(row) |-> CapAtCeiling(row[m], c)]

\* after a fit with the values raw and the bootstrap rows boots
SaturationResult(raw, boots, c) ==
    LET forecast_values == CapRow(raw, c)
        Upper(q) == [m \in 1..Len(raw) |->
                        CapAtCeiling(Percentile(Column(boots, m), q), 1000 * c)]
    IN  [kind |-> "ProjectionResult", method |-> "saturation", fit_attempted |-> TRUE,
         fit_error |-> "none",
         forecast_values |-> forecast_values,
         ci_80_high |-> Upper(UpperPercentiles.ci_80_high),
         ci_95_high |-> Upper(UpperPercentiles.ci_95_high)]

\* a bootstrap row: the capped values of the resample's fit, or forecast_values
\* when that fit raised
BootstrapRows(raw, months, c) ==
    { CapRow(r, c) : r \in [1..months -> LogisticValues(c)] } \cup {CapRow(raw, c)}

SaturationProjection ==
    /\ ppc = "idle"
    /\ ppc' = "done"
    /\ LET g == Gate(df, SaturationMinPoints, window_months)
           w == WindowRows(ScoredRows(df), window_months)
       IN  IF g # "fit"
           THEN projection' = Ended(g, "saturation", FALSE)
           ELSE \E out \in SaturationFitOutcomes(w, ceiling) :
                    IF out # "ok"
                    THEN projection' = FitRaised(out, "saturation")
                    ELSE \E raw \in [1..forecast_months -> LogisticValues(ceiling)] :
                         \E boots \in [1..NBootstrap ->
                                          BootstrapRows(raw, forecast_months, ceiling)] :
                             projection' = SaturationResult(raw, boots, ceiling)
    /\ UNCHANGED <<df, window_months, forecast_months, ceiling>>
    /\ UNCHANGED <<idvars, dbvars, clivars, srcvars, fvars, runvars, updvars, refvars>>

PowerLawProjection ==
    /\ ppc = "idle"
    /\ ppc' = "done"
    /\ LET g == Gate(df, PowerLawMinPoints, window_months)
           w == WindowRows(ScoredRows(df), window_months)
       IN  IF g # "fit"
           THEN projection' = Ended(g, "power_law", FALSE)
           ELSE \E out \in PowerLawFitOutcomes(w) :
                    IF out # "ok"
                    THEN projection' = FitRaised(out, "power_law")
                    ELSE projection' = Ended("ProjectionResult", "power_law", TRUE)
    /\ UNCHANGED <<df, window_months, forecast_months, ceiling>>
    /\ UNCHANGED <<idvars, dbvars, clivars, srcvars, fvars, runvars, updvars, refvars>>

InitProjection ==
    /\ IdleFrontier
    /\ IdleRun
    /\ IdleUpdate
    /\ IdleRefresh
    /\ IdleDb
    /\ IdleCli
    /\ IdleSources
    /\ IdleIds
    /\ df \in Series
    /\ window_months \in WindowMonths
    /\ forecast_months \in ForecastMonths
    /\ ceiling \in ProjCeilings
    /\ projection = NoProjection
    /\ ppc = "idle"

NextProjection ==
    \/ LinearProjection
    \/ SaturationProjection
    \/ PowerLawProjection

SpecProjection == InitProjection /\ [][NextProjection]_vars

(***************************************************************************)
(* Result.generate_id and BaseIngestor.normalize_model_id.  A string is    *)
(* the sequence of its characters; a date is written by its ISO text.      *)
(***************************************************************************)
MaxCalls == 3

\* characters of raw model names: one the normalisation keeps and the separator
RawChars == {"a", ":"}
RawNames == UNION { [1..n -> RawChars] : n \in 1..2 }
Providers == { <<"a">> }
\* BENCHMARK_ID of the adapters: lower-case letters, digits, '_'
BenchmarkIds == { <<"a">>, <<"a", "a">> }
NoDate == "None"
IsoDates == {"2024-01-01", "2024-01-02"}

\* re.sub(r"[^a-zA-Z0-9._-]", "_", name.lower()), one character: of RawChars
\* only "a" is in the class
Clean(c) == IF c = "a" THEN c ELSE "_"

CleanAll(str) == [i \in 1..Len(str) |-> Clean(str[i])]

\* f"{provider_clean}:{name_clean}"
NormalizeModelId(raw_name, provider) == CleanAll(provider) \o <<":">> \o CleanAll(raw_name)

\* evaluation_date.isoformat() if evaluation_date else "unknown"
IdDateStr(d) == IF d # NoDate THEN d ELSE "unknown"

\* content = f"{model_id}:{benchmark_id}:{date_str}"; the date text, which
\* holds no ':', is kept as one element
IdContentUnseparated(model_id, benchmark_id, d) ==
    model_id \o benchmark_id \o <<IdDateStr(d)>>
IdContent(model_id, benchmark_id, d) ==
    model_id \o <<":">> \o benchmark_id \o <<":">> \o <<IdDateStr(d)>>

\* hashlib.sha256(content.encode()).hexdigest()[:16]: a function of content
\* alone; different contents are taken to have different digests
Sha256Hex16(content) == <<"sha256", content>>

\* an id that also depends on when it is asked for, as generate_source_id's does
GenerateIdStamped(model_id, benchmark_id, d) ==
    <<"sha256", IdContent(model_id, benchmark_id, d), clock>>
GenerateId(model_id, benchmark_id, d) ==
    Sha256Hex16(IdContent(model_id, benchmark_id, d))

IdRows ==
    [raw_name : RawNames, provider : Providers, benchmark_id : BenchmarkIds,
     evaluation_date : IsoDates \cup {NoDate}]

\* an adapter's parse for row k: normalize_model_id, then generate_result_id
GenerateIdCall(k) ==
    /\ Len(id_calls) < MaxCalls
    /\ LET row == id_args[k]
           model_id == NormalizeModelId(row.raw_name, row.provider)
       IN  id_calls' = Append(id_calls,
               [model_id |-> model_id,
                benchmark_id |-> row.benchmark_id,
                evaluation_date |-> row.evaluation_date,
                content |-> IdContent(model_id, row.benchmark_id, row.evaluation_date),
                id |-> GenerateId(model_id, row.benchmark_id, row.evaluation_date)])
    /\ UNCHANGED <<id_args, srcvars>>
    /\ UNCHANGED <<projvars, dbvars, clivars, fvars, runvars, updvars, refvars>>

InitIds ==
    /\ IdleFrontier
    /\ IdleRun
    /\ IdleUpdate
    /\ IdleRefresh
    /\ IdleDb
    /\ IdleCli
    /\ IdleSources
    /\ IdleProj
    /\ id_args \in [1..2 -> IdRows]
    /\ id_calls = <<>>

NextIds ==
    \/ \E k \in 1..2 : GenerateIdCall(k)
    \/ Tick

SpecIds == InitIds /\ [][NextIds]_vars

(***************************************************************************)
(* Claims about the frontier.                                              *)
(***************************************************************************)
\* C1: the frontier, which is returned in ascending effective-date order,
\* has a non-decreasing score sequence when the benchmark is
\* higher_is_better and a non-increasing one when it is not.
C1_FrontierMonotone ==
    fpc = "done" =>
        /\ IsSortedByDate(frontier)
        /\ \A i \in 1..Len(frontier) : \A j \in 1..Len(frontier) :
             i < j =>
                IF higher_is_better
                THEN frontier[i].score <= frontier[j].score
                ELSE frontier[i].score >= frontier[j].score

\* C1 witness: a frontier of two rows with different scores, for a
\* benchmark of each direction.
C1_Witness ==
    /\ fpc = "done"
    /\ Len(frontier) = 2
    /\ frontier[1].score # frontier[2].score
    /\ ~higher_is_better

\* The rows get_results_for_benchmark returned to the last query.
InputRows == { fsorted[i] : i \in 1..Len(fsorted) }

\* The best score among the input rows dated on or before date d.
BestAsOf(d) ==
    LET S == { r.score : r \in { r \in InputRows :
                  r.score # NULL /\ EffectiveDate(r) # NULL /\ EffectiveDate(r) <= d } }
    IN  IF higher_is_better THEN SetMax(S) ELSE SetMin(S)

\* C2: every frontier row's score is the best score among the input results
\* whose effective date is on or before the row's effective date.
C2_FrontierIsBestAsOf ==
    fpc = "done" =>
        \A i \in 1..Len(frontier) :
            EffectiveDate(frontier[i]) # NULL =>
                frontier[i].score = BestAsOf(EffectiveDate(frontier[i]))

(***************************************************************************)
(* Claims about one run of an ingestor.                                    *)
(***************************************************************************)
\* the members of a sequence
Range(seq) == { seq[i] : i \in 1..Len(seq) }

HasProvenance(r) == r.source_id # "" /\ r.trust_tier \in TrustTiers

\* the rows of the current run's raw data
RawOf(ing) == upstream[ing.cls].rows

\* C5: no Result without provenance exists.  A row whose Result would have an
\* empty source_id or no trust_tier yields no Result, so the list parse
\* returns holds exactly one Result per row with provenance, and every Result
\* that reaches validate, insert_results or the store has a source_id and a
\* trust tier of A, B or C.
C5_NoResultWithoutProvenance ==
    /\ \A r \in Range(results) \cup Range(validated) \cup store.results : HasProvenance(r)
    /\ pc = "validate" =>
         Len(results) = Cardinality({ i \in 1..Len(RawOf(cur)) : RawOf(cur)[i].prov = "ok" })

\* C5 witness: parse has met a row with an empty source_id and a row with no
\* trust_tier, and returned no Result for either.
C5_Witness ==
    /\ pc = "validate"
    /\ \E i \in 1..Len(RawOf(cur)) : RawOf(cur)[i].prov = "no_source"
    /\ \E i \in 1..Len(RawOf(cur)) : RawOf(cur)[i].prov = "no_tier"
    /\ results = <<>>

\* the message run logs for an exception of each stage
ErrorMessage(stage) ==
    CASE stage = "fetch_raw" -> "Failed to fetch raw data"
      [] stage = "parse" -> "Failed to parse data"
      [] stage = "persist" -> "Failed to write to database"

\* C8: an exception of fetch_raw, parse or a persistence call never leaves
\* run: run returns a summary with success = false and the message among the
\* errors.  After a fetch or parse failure no later stage has run and parsed,
\* validated and inserted are 0; after a persistence failure inserted is 0.
C8_ExceptionsBecomeSummaries ==
    exc \in {"fetch_raw", "parse", "persist"} =>
        /\ pc = "returned"
        /\ summary.success = FALSE
        /\ ErrorMessage(exc) \in Range(summary.errors)
        /\ summary.inserted = 0
        /\ exc \in {"fetch_raw", "parse"} =>
             /\ summary.parsed = 0
             /\ summary.validated = 0
             /\ results = <<>> /\ validated = <<>> /\ writeLog = <<>>
             /\ store = storeAtStart

\* C8 witness: a non-dry run whose insert_results raised after a result was
\* written.
C8_Witness ==
    /\ pc = "returned"
    /\ exc = "persist"
    /\ \E i \in 1..Len(writeLog) : writeLog[i] = "result"

\* the stage of each kind of write
WriteRank(w) ==
    CASE w = "benchmark" -> 1 [] w = "source" -> 2 [] w = "model" -> 3 [] w = "result" -> 4

\* C9: a non-dry run writes the benchmark, then the sources, then the models,
\* then the results, so when a Result is about to be written the Benchmark,
\* the Model and the Source it references are in the store.
C9_ParentsExistWhenResultsAreWritten ==
    /\ \A i \in 1..Len(writeLog) : \A j \in 1..Len(writeLog) :
         i < j => WriteRank(writeLog[i]) <= WriteRank(writeLog[j])
    /\ (pc = "results" /\ pidx <= Len(validated)) =>
         ForeignKeysHold(store, validated[pidx])


\* C4: validate drops every result that has no source_id and records an
\* error for each of them, so a run whose parsed results held one reports
\* success = false.
NoSourceId == { i \in 1..Len(results) : results[i].source_id = "" }

Running(cls) == rpc = "loop" /\ pc # "idle" /\ cur.cls = cls

\* C6: with prefer_official the official ingestor runs before the epoch one,
\* the epoch one runs only after the official run raised or returned
\* success = false, the first success is what refresh_benchmark returns, with
\* no later source run, and when every configured source failed the return
\* value is a failure.
C6_OfficialFirstThenFallback ==
    (rf_benchmark = "swe_bench_verified" /\ prefer_official) =>
       /\ Running("SWEBenchOfficialIngestor") => tried = <<>>
       /\ Running("SWEBenchIngestor") =>
             /\ Len(tried) = 1
             /\ tried[1].source_type = "official"
             /\ tried[1].outcome \in {"failed", "raised"}
       /\ \A i \in 1..Len(tried) :
             /\ tried[i].source_type = <<"official", "epoch">>[i]
             /\ i < Len(tried) => tried[i].outcome # "success"
       /\ Len(tried) <= 2
       /\ rpc = "done" =>
             /\ tried # <<>>
             /\ IF tried[Len(tried)].outcome = "success"
                THEN rf_return = summary /\ rf_return.success
                ELSE /\ Len(tried) = 2
                     /\ rf_return = [success |-> FALSE, error |-> "All sources failed"]

\* C6 witness: the official run failed, the epoch run succeeded and its
\* summary is what was returned.
C6_Witness ==
    /\ rf_benchmark = "swe_bench_verified"
    /\ prefer_official
    /\ rpc = "done"
    /\ Len(tried) = 2
    /\ tried[1].outcome \in {"failed", "raised"}
    /\ tried[2].outcome = "success"
    /\ rf_return.success
    /\ rf_return.benchmark_id = "swe_bench_verified"

(***************************************************************************)
(* Claims about run_update.                                                *)
(***************************************************************************)
\* C7: every ingestor of the selected list is run exactly once, in the
\* order of the list, each run over before the next starts; a run that
\* failed or raised does not keep the later ones from running.
C7_EveryIngestorRunsOnceInOrder ==
    /\ Len(runLog) <= Len(ingestors)
    /\ runLog = SubSeq(ingestors, 1, Len(runLog))
    /\ upc = "loop" => /\ Len(runLog) = (IF pc = "idle" THEN ui - 1 ELSE ui)
                       /\ Len(run_results) >= ui - 1
    /\ (upc = "done" /\ (benchmark_arg = NoArg \/ benchmark_arg \in BatchKeys)) =>
          /\ runLog = ingestors
          /\ Len(run_results) >= Len(ingestors)
          /\ ingestors = IF benchmark_arg = NoArg THEN GetAllIngestors
                         ELSE <<GetIngestor(benchmark_arg)>>

\* C7 witness: a batch whose first run raised and whose second run ran to
\* its end.
C7_Witness ==
    /\ upc = "done"
    /\ Len(runLog) >= 2
    /\ run_results[1].errors = <<"crashed">>
    /\ run_results[2].success

\* C10: a dry run writes nothing: no insert is called, the summary of the
\* run has inserted = 0 with the parsed and validated counts of the run, and
\* run_update leaves the store, the changelog and last_update as they were.
C10_DryRunWritesNothing ==
    dry_run =>
       /\ store = EmptyStore
       /\ writeLog = <<>>
       /\ changelog = <<>>
       /\ last_update = "never"
       /\ pc = "returned" => /\ summary.inserted = 0
                             /\ summary.parsed = Len(results)
                             /\ summary.validated = Len(validated)
       /\ \A i \in 1..Len(run_results) :
             run_results[i].success => run_results[i].inserted = 0

\* C10 witness: a dry batch is over, one of its runs having parsed and
\* validated a result.
C10_Witness ==
    /\ dry_run
    /\ upc = "done"
    /\ \E i \in 1..Len(run_results) :
          /\ run_results[i].success
          /\ run_results[i].validated > 0
          /\ run_results[i].parsed > run_results[i].validated


(***************************************************************************)
(* Claims about the summary and about validate.                            *)
(***************************************************************************)
\* C11: the summary run returns has success = true exactly when the error
\* list is empty, whatever the warnings are and however many results
\* validate dropped for their score, and inserted <= validated <= parsed.
C11_SuccessIffNoErrors ==
    pc = "returned" =>
       /\ summary.errors = errors
       /\ summary.warnings = warnings
       /\ summary.success <=> (errors = <<>>)
       /\ summary.inserted <= summary.validated
       /\ summary.validated <= summary.parsed

\* C11 witness: a run that dropped a result for its score, with a warning,
\* inserted another and returned success.
C11_Witness ==
    /\ pc = "returned"
    /\ summary.success
    /\ summary.warnings # <<>>
    /\ summary.inserted > 0
    /\ summary.inserted < summary.parsed

\* the score of r is not null and off the scale of the running ingestor's benchmark
OffScale(r) == r.score # NULL /\ (r.score < cur.scale_min \/ r.score > cur.scale_max)

KeptByValidate(r) == ~OffScale(r) /\ r.source_id # ""

\* the members of a list that validate is to keep, in the order of the list
RECURSIVE Keep(_)
Keep(seq) ==
    IF seq = <<>> THEN <<>>
    ELSE (IF KeptByValidate(Head(seq)) THEN <<Head(seq)>> ELSE <<>>) \o Keep(Tail(seq))

\* C12: validate drops every result whose score is off the benchmark's
\* scale, with one warning and no error for it, keeps, in order, every
\* result whose score is on the scale or null and that has a source_id, and
\* no dropped result is inserted.
C12_OutOfRangeDroppedWithWarning ==
    pc \notin {"validate", "idle", "raised"} =>
       /\ validated = Keep(results)
       /\ Cardinality({ i \in 1..Len(warnings) : warnings[i] = "Score out of range" })
            = Cardinality({ i \in 1..Len(results) : OffScale(results[i]) })
       /\ Cardinality({ i \in 1..Len(errors) : errors[i] = "Missing source_id" })
            = Cardinality({ i \in 1..Len(results) :
                              ~OffScale(results[i]) /\ results[i].source_id = "" })
       /\ \A x \in store.results : \E i \in 1..Len(validated) : validated[i] = x
       /\ \A x \in store.results : ~OffScale(x)

\* C12 witness: of two parsed results the one with a score off the scale was
\* dropped with a warning, and the other, whose score is null, was inserted.
C12_Witness ==
    /\ pc = "returned"
    /\ Len(results) = 2
    /\ \E i \in 1..2 : OffScale(results[i])
    /\ Len(validated) = 1
    /\ validated[1].score = NULL
    /\ Len(warnings) = 1
    /\ errors = <<>>
    /\ validated[1] \in store.results


(***************************************************************************)
(* Claims about the store.                                                 *)
(***************************************************************************)
\* the effective date of a stored result
StoredEffectiveDate(x) ==
    IF x.evaluation_date # NULL THEN x.evaluation_date ELSE model_release[x.model_id]

\* the store holds at most one result per result_id, the last call's
\* results are stored with the values of the last write of their id, and a
\* call that repeats the call before it leaves the number of results as it was
C13_UpsertById ==
    /\ \A x \in store.results : \A y \in store.results :
          x.result_id = y.result_id => x = y
    /\ qpc = "inserted" =>
          \A i \in 1..Len(batch) :
             (\A j \in (i + 1)..Len(batch) : batch[j].result_id # batch[i].result_id)
                => batch[i] \in store.results
    /\ reingest => Cardinality(store.results) = countBefore

\* C13: after any sequence of insert_results calls the store holds at most
\* one Result per result_id, hence per model, benchmark and effective date,
\* with the values of the most recent write of that id, and re-ingesting the
\* same batch leaves the number of stored results unchanged.
C13_OneResultPerModelBenchmarkDate ==
    /\ C13_UpsertById
    /\ \A x \in store.results : \A y \in store.results :
          ( /\ x.model_id = y.model_id
            /\ x.benchmark_id = y.benchmark_id
            /\ StoredEffectiveDate(x) # NULL
            /\ StoredEffectiveDate(x) = StoredEffectiveDate(y) ) => x = y


(***************************************************************************)
(* Claims about the batch registry, the changelog and the batch summary.   *)
(***************************************************************************)
\* the run whose summary is at position i of results inserted results
Inserted(i) == run_results[i].success /\ run_results[i].inserted > 0

InsertingRunEnds ==
    /\ upc = "loop" /\ pc = "returned" /\ pc' = "idle"
    /\ ~dry_run
    /\ summary.inserted > 0

\* the changelog only grows, by one record a step, and only by the record
\* of a run that reported at least one inserted result
ChangelogGrowsByInsertingRuns ==
    /\ Len(changelog') >= Len(changelog)
    /\ SubSeq(changelog', 1, Len(changelog)) = changelog
    /\ changelog' # changelog =>
          /\ InsertingRunEnds
          /\ changelog' = Append(changelog, ChangelogEntry(cur, summary.inserted))

C17_BatchSummaryAndExitCode ==
    (upc = "done" /\ (benchmark_arg = NoArg \/ benchmark_arg \in BatchKeys)) =>
       /\ update_summary.success <=> (update_summary.failed = 0)
       /\ update_summary.succeeded + update_summary.failed = update_summary.total
       /\ update_summary.total = Len(runLog)
       /\ exit_code # NoExit => exit_code = (IF update_summary.success THEN 0 ELSE 1)


(***************************************************************************)
(* Claims about the registered sources.                                    *)
(***************************************************************************)
\* C15: every registered Source has source_id = Source.generate_id of its
\* own source_url and retrieved_at, so two Source records with the same URL
\* and the same retrieved_at have the same id.
C15_SourceIdFromUrlAndRetrievedAt ==
    /\ \A i \in 1..Len(registered) :
          registered[i].source_id
             = SourceGenerateId(registered[i].source_url, registered[i].retrieved_at)
    /\ \A i \in 1..Len(registered) : \A j \in 1..Len(registered) :
          ( /\ registered[i].source_url = registered[j].source_url
            /\ registered[i].retrieved_at = registered[j].retrieved_at )
             => registered[i].source_id = registered[j].source_id


(***************************************************************************)
(* Claims about refresh_data's run-all mode.                               *)
(***************************************************************************)
\* C18: the run-all mode exits with code 0 only if every benchmark was
\* refreshed successfully, and with code 1 if the refresh of any failed.
C18_RefreshAllExitCode ==
    ra_pc = "done" =>
       /\ exit_code = 0 => \A i \in 1..Len(ra_results) : ra_results[i].success
       /\ (\E i \in 1..Len(ra_results) : ~ra_results[i].success) => exit_code = 1

(***************************************************************************)
(* Claims about the projections.                                           *)
(***************************************************************************)
MinPointsOf(method) ==
    CASE method = "linear" -> LinearMinPoints
      [] method = "saturation" -> SaturationMinPoints
      [] method = "power_law" -> PowerLawMinPoints

\* the latest date of the points that have a score (NULL: none has a date)
LatestDate ==
    LET ds == { df[i].date : i \in { i \in 1..Len(df) : df[i].score # NULL } } \ {NULL}
    IN  IF ds = {} THEN NULL ELSE SetMax(ds)

\* the points with a score that lie in the trailing window_months*30 days
\* ending at the latest date
PointsInWindow ==
    IF LatestDate = NULL THEN {}
    ELSE { i \in 1..Len(df) :
             /\ df[i].score # NULL
             /\ df[i].date # NULL
             /\ df[i].date >= LatestDate - window_months * 30
             /\ df[i].date <= LatestDate }

\* C19: a projection returns None, and fits nothing, whenever fewer points
\* with a score than its minimum (3 linear, 5 saturation, 4 power law) lie in
\* the fitting window, and it attempts the fit when at least that many do.
C19_MinimumDataGate ==
    ppc = "done" =>
        IF Cardinality(PointsInWindow) < MinPointsOf(projection.method)
        THEN projection.kind = "None" /\ ~projection.fit_attempted
        ELSE projection.fit_attempted

\* C20: every forecast value saturation_projection returns is at most the
\* ceiling, in every forecast month and whatever the fit found, and so is
\* every upper confidence bound ci_80_high and ci_95_high.
C20_SaturationNeverAboveCeiling ==
    (ppc = "done" /\ projection.method = "saturation"
        /\ projection.kind = "ProjectionResult") =>
        \A m \in 1..forecast_months :
            /\ projection.forecast_values[m] <= ceiling
            /\ projection.ci_80_high[m] <= 1000 * ceiling
            /\ projection.ci_95_high[m] <= 1000 * ceiling

\* a two-month saturation forecast in which one month was cut down to the
\* ceiling, the other was below it, and an upper bound lies on the ceiling
C20_Witness ==
    /\ ppc = "done"
    /\ projection.method = "saturation"
    /\ projection.kind = "ProjectionResult"
    /\ forecast_months = 2
    /\ Len(projection.forecast_values) = 2
    /\ projection.forecast_values[1] < ceiling
    /\ projection.forecast_values[2] = ceiling
    /\ projection.ci_95_high[2] = 1000 * ceiling
    /\ projection.ci_80_high[1] < 1000 * ceiling

\* C21: when the main fit of saturation_projection or power_law_projection
\* fails (no convergence, infeasible bounds or initial guess) the function
\* returns None and raises nothing.
C21_FitFailureReturnsNone ==
    (ppc = "done" /\ projection.method \in {"saturation", "power_law"}
        /\ projection.fit_error # "none") =>
        projection.kind = "None"

\* a saturation fit whose initial guess is infeasible (the best score is above
\* the ceiling, within 120% of it) and which returned None
C21_Witness ==
    /\ ppc = "done"
    /\ projection.method = "saturation"
    /\ projection.fit_error = "ValueError"
    /\ projection.kind = "None"
    /\ BoundsFeasible(WindowRows(ScoredRows(df), window_months), ceiling)
    /\ ~GuessFeasible(WindowRows(ScoredRows(df), window_months), ceiling)

\* a power-law fit that did not converge and returned None
C21_WitnessPowerLaw ==
    /\ ppc = "done"
    /\ projection.method = "power_law"
    /\ projection.fit_error = "RuntimeError"
    /\ projection.kind = "None"

(***************************************************************************)
(* Further claims about the frontier query.                                *)
(***************************************************************************)
Dated(r) == EffectiveDate(r) # NULL

\* C22: a result with neither an evaluation_date nor a model release_date is
\* never in the frontier, and the frontier is the one the dated results
\* alone would give.
C22_UndatedResultsTakeNoPart ==
    fpc = "done" =>
        /\ \A i \in 1..Len(frontier) : Dated(frontier[i])
        /\ frontier = FilterFrontier(SelectSeq(fsorted, Dated),
                                     Len(SelectSeq(fsorted, Dated)), higher_is_better)

\* the running extremum of the scores at the positions up to i, in date order
RunningBest(i) ==
    LET S == { fsorted[k].score : k \in { k \in 1..i : fsorted[k].score # NULL } }
    IN  IF higher_is_better THEN SetMax(S) ELSE SetMin(S)

AtRunningBest ==
    { i \in 1..Len(fsorted) :
        fsorted[i].score # NULL /\ fsorted[i].score = RunningBest(i) }

\* C23: every input result whose score equals the running extremum at its
\* position in date order is in the frontier; results that tie the current
\* best, on the same date or a later one, are all kept.
C23_TiesAreKept ==
    fpc = "done" =>
        /\ Len(frontier) = Cardinality(AtRunningBest)
        /\ \A i \in AtRunningBest : \E j \in 1..Len(frontier) : frontier[j] = fsorted[i]

\* two results of equal score on different dates, both in the frontier
C23_Witness ==
    /\ fpc = "done"
    /\ Len(fsorted) = 2
    /\ fsorted[1].score # NULL
    /\ fsorted[1].score = fsorted[2].score
    /\ Dated(fsorted[1])
    /\ EffectiveDate(fsorted[1]) < EffectiveDate(fsorted[2])
    /\ Len(frontier) = 2

\* C25: with min_date given, get_results_for_benchmark returns only results
\* whose effective date (evaluation_date, else the model's release_date) is
\* on or after min_date.
C25_MinDateBoundsEffectiveDate ==
    (fpc = "done" /\ min_date # NULL) =>
        \A i \in 1..Len(fsorted) :
            Dated(fsorted[i]) /\ EffectiveDate(fsorted[i]) >= min_date

\* C28: the frontier depends only on the set of input results: every order
\* in which the rows can be supplied gives the same set of frontier rows.
C28_FrontierIndependentOfRowOrder ==
    fpc = "done" =>
        \A s \in SortedOutcomes(table, min_date) :
            Range(FilterFrontier(s, Len(s), higher_is_better)) = Range(frontier)

(***************************************************************************)
(* Further claims about one run of an ingestor.                            *)
(***************************************************************************)
\* C26: a run that returns success = false has written nothing to the store.
\* (Runs whose persistence step raised are left to C3.)
C26_FailedRunWroteNothing ==
    (pc = "returned" /\ ~summary.success /\ exc = "none") => store = storeAtStart

(***************************************************************************)
(* Further claims about refresh_benchmark.                                 *)
(***************************************************************************)
\* C27: with prefer_official = false (--epoch-only) no official ingestor is
\* ever run for the benchmark, also when its Epoch source fails.
C27_EpochOnlyRunsNoOfficialIngestor ==
    ~prefer_official =>
        /\ \A i \in 1..Len(tried) : tried[i].source_type # "official"
        /\ ~Running("SWEBenchOfficialIngestor")

\* the results rows the run wrote: one per result_id it upserted
RowsWritten == { r.result_id : r \in Range(validated) }

SameInputs(a, b) ==
    /\ a.model_id = b.model_id
    /\ a.benchmark_id = b.benchmark_id
    /\ a.evaluation_date = b.evaluation_date

\* C24: generate_id is a pure function: calls with identical inputs give the
\* same id whenever they are made, and the same model and benchmark with two
\* different dates, or with a date and with none, give different ids.
C24_GenerateIdIsPure ==
    \A i \in 1..Len(id_calls) : \A j \in 1..Len(id_calls) :
        /\ SameInputs(id_calls[i], id_calls[j]) => id_calls[i].id = id_calls[j].id
        /\ (/\ id_calls[i].model_id = id_calls[j].model_id
            /\ id_calls[i].benchmark_id = id_calls[j].benchmark_id
            /\ id_calls[i].evaluation_date # id_calls[j].evaluation_date)
               => id_calls[i].id # id_calls[j].id

\* the same row asked for at two different times, and the same model and
\* benchmark asked for with a date and with none
C24_Witness ==
    /\ Len(id_calls) = 3
    /\ clock > 0
    /\ SameInputs(id_calls[1], id_calls[2])
    /\ id_calls[1].id = id_calls[2].id
    /\ id_calls[3].model_id = id_calls[1].model_id
    /\ id_calls[3].benchmark_id = id_calls[1].benchmark_id
    /\ id_calls[1].evaluation_date \in IsoDates
    /\ id_calls[3].evaluation_date = NoDate
    /\ id_calls[3].id # id_calls[1].id

\* C29: generate_id hashes a different string for every different
\* (model_id, benchmark_id, evaluation_date), model ids with ':' included, so
\* that only a hash collision can give two different results one id.
C29_ContentIsInjective ==
    \A i \in 1..Len(id_calls) : \A j \in 1..Len(id_calls) :
        ~SameInputs(id_calls[i], id_calls[j]) =>
            id_calls[i].content # id_calls[j].content

\* two rows whose model id and benchmark id, written one after the other
\* without the separator, would read the same
C29_Witness ==
    /\ Len(id_calls) >= 2
    /\ ~SameInputs(id_calls[1], id_calls[2])
    /\ id_calls[1].evaluation_date = id_calls[2].evaluation_date
    /\ id_calls[1].model_id \o id_calls[1].benchmark_id
         = id_calls[2].model_id \o id_calls[2].benchmark_id
    /\ \E k \in 1..Len(id_calls[1].model_id) : id_calls[1].model_id[k] = ":"
    /\ id_calls[1].content # id_calls[2].content

====
